---- MODULE Spec2Model ----
(***************************************************************************)
(* Blackwell's addition game (src/src/minimax/game_addition_demo.py).      *)
(* Players alternately add an integer of 1..k to a running sum; whoever    *)
(* pushes the sum above N loses.  The module models the backward-induction *)
(* solver, the closed-form verifier, the plain and alpha-beta minimax      *)
(* searches with their node counters, and the game simulator.              *)
(***************************************************************************)
EXTENDS Integers, Sequences, FiniteSets, TLC

\* ------------------------------------------------------------------------
\* Bounds of the explored parameter space
\* ------------------------------------------------------------------------
MaxK == 3
MaxN == 10

\* Parameters handed to the functions: k = 0 and N = -1 are the invalid ones.
Ks == 0..MaxK
Ns == (-1)..MaxN

\* math.inf: every game value is -1 or +1, and the code only compares,
\* max/min-s and negates values, so 2 / -2 behave as +inf / -inf.
Inf == 2
PosInf == Inf
NegInf == -Inf

\* Python's None for a policy entry; a move i is the one-element set {i}.
None == {}
Some(i) == {i}
TheMove(m) == CHOOSE i \in m : TRUE

Max(a, b) == IF a >= b THEN a ELSE b
Min(a, b) == IF a <= b THEN a ELSE b

\* ------------------------------------------------------------------------
\* Python lists: [0] * n and the index check of lst[idx]
\* ------------------------------------------------------------------------
ListLen(n) == IF n < 0 THEN 0 ELSE n
NewList(n, x) == [j \in 0..(ListLen(n) - 1) |-> x]
IndexOk(lst, idx) ==
    LET len == Cardinality(DOMAIN lst) IN (-len <= idx) /\ (idx < len)

\* ------------------------------------------------------------------------
\* solve_addition_game (lines 129-165)
\* ------------------------------------------------------------------------
\* Mutant of CandidateValue: the bust test off by one (>= for >)
CandidateValueBustAtN(Vt, s0, i, NN) ==
    IF s0 + i >= NN THEN -1 ELSE -Vt[s0 + i]

\* lines 152-156: the value of move i at sum s0 to the mover
CandidateValue(Vt, s0, i, NN) ==
    IF s0 + i > NN THEN -1 ELSE -Vt[s0 + i]

\* Mutant of ImprovesBest: >= keeps the last maximal move, not the first
ImprovesBestOrTies(val, best_val) == val >= best_val

\* line 158: strict improvement, so the first maximal move is kept
ImprovesBest(val, best_val) == val > best_val

\* lines 151-160: the scan over i = 1..k; best = [val, move]
RECURSIVE ScanMoves(_, _, _, _, _, _)
ScanMoves(Vt, s0, i, kk, NN, best) ==
    IF i > kk THEN best
    ELSE LET val == CandidateValue(Vt, s0, i, NN)
         IN ScanMoves(Vt, s0, i + 1, kk, NN,
                      IF ImprovesBest(val, best.val)
                      THEN [val |-> val, move |-> Some(i)]
                      ELSE best)

\* lines 147-163: backward induction for s0 = N-1 down to 0
RECURSIVE BackwardInduction(_, _, _, _, _)
BackwardInduction(Vt, Pt, s0, kk, NN) ==
    IF s0 < 0 THEN [V |-> Vt, policy |-> Pt]
    ELSE LET b == ScanMoves(Vt, s0, 1, kk, NN, [val |-> NegInf, move |-> None])
         IN BackwardInduction([Vt EXCEPT ![s0] = b.val],
                              [Pt EXCEPT ![s0] = b.move], s0 - 1, kk, NN)

\* The result of a call that has not been made
NoSol == [status |-> "none", V |-> NewList(0, 0), policy |-> NewList(0, Some(0))]

\* lines 139-165; V[N] = -1 raises IndexError when the list has no index N
solve_addition_game(kk, NN) ==
    LET V0 == NewList(NN + 1, 0)
        P0 == NewList(NN + 1, Some(0))
    IN IF ~IndexOk(V0, NN)
       THEN [status |-> "IndexError", V |-> V0, policy |-> P0]
       ELSE LET r == BackwardInduction([V0 EXCEPT ![NN] = -1],
                                       [P0 EXCEPT ![NN] = None],
                                       NN - 1, kk, NN)
            IN [status |-> "ok", V |-> r.V, policy |-> r.policy]

\* ------------------------------------------------------------------------
\* verify_analytical_solution (lines 252-262)
\* ------------------------------------------------------------------------
\* line 258
Expected(s0, kk, NN) == IF (NN - s0) % (kk + 1) = 0 THEN -1 ELSE 1

RECURSIVE VerifyLoop(_, _, _, _)
VerifyLoop(Vt, s0, kk, NN) ==
    IF s0 > NN THEN "True"
    ELSE IF Vt[s0] # Expected(s0, kk, NN) THEN "False"
    ELSE VerifyLoop(Vt, s0 + 1, kk, NN)

verify_analytical_solution(kk, NN) ==
    LET r == solve_addition_game(kk, NN)
    IN IF r.status # "ok" THEN r.status ELSE VerifyLoop(r.V, 0, kk, NN)

\* ------------------------------------------------------------------------
\* minimax_tree (lines 273-310); stats.nodes is returned with the value
\* ------------------------------------------------------------------------
\* lines 283 and 319: the mover at s0 >= N is forced to bust
ForcedBust(s0, NN) == s0 >= NN

\* Mutant of BustValue: the signs of the two roles exchanged
BustValueFlipped(is_player1) == IF is_player1 THEN 1 ELSE -1

\* lines 285-288 and 320: a bust of the mover, on Player I's axis
BustValue(is_player1) == IF is_player1 THEN -1 ELSE 1

RECURSIVE minimax_tree(_, _, _, _)
RECURSIVE MinimaxLoop(_, _, _, _, _, _, _)

\* lines 293-300 (MAX node) and 303-310 (MIN node), from move i on
MinimaxLoop(s0, kk, NN, is_player1, i, best, nodes) ==
    IF i > kk THEN [val |-> best, nodes |-> nodes]
    ELSE LET sub == IF s0 + i <= NN
                    THEN minimax_tree(s0 + i, kk, NN, ~is_player1)
                    ELSE [val |-> BustValue(is_player1), nodes |-> 0]
         IN MinimaxLoop(s0, kk, NN, is_player1, i + 1,
                        IF is_player1 THEN Max(best, sub.val)
                                      ELSE Min(best, sub.val),
                        nodes + sub.nodes)

minimax_tree(s0, kk, NN, is_player1) ==
    IF ForcedBust(s0, NN)
    THEN [val |-> BustValue(is_player1), nodes |-> 1]
    ELSE MinimaxLoop(s0, kk, NN, is_player1, 1,
                     IF is_player1 THEN NegInf ELSE PosInf, 1)

\* ------------------------------------------------------------------------
\* minimax_ab_tree (lines 313-345).  Besides the value and stats.nodes the
\* result counts the loops left through the break (cuts) and those of them
\* that leave a move unexplored which would not bust (pruned).
\* ------------------------------------------------------------------------
\* Mutant of Cutoff: the operands swapped
CutoffSwapped(alpha, beta) == beta >= alpha

\* Mutant of Cutoff: strict comparison, a window closed to a point is kept
CutoffStrict(alpha, beta) == alpha > beta

\* lines 331 and 343
Cutoff(alpha, beta) == alpha >= beta

\* Mutant of MoveBusts: the move that reaches N + 1 is searched, not scored
MoveBustsLate(s0, i, NN) == s0 + i > NN + 1

\* lines 325 and 337
MoveBusts(s0, i, NN) == s0 + i > NN

RECURSIVE minimax_ab_tree(_, _, _, _, _, _)
RECURSIVE AlphaBetaLoop(_, _, _, _, _, _, _, _, _)

\* lines 324-333 (Player I) and 336-345 (Player II), from move i on;
\* acc = [nodes, cuts, pruned] so far
AlphaBetaLoop(s0, kk, NN, is_player1, alpha, beta, i, best, acc) ==
    IF i > kk THEN [val |-> best, nodes |-> acc.nodes,
                    cuts |-> acc.cuts, pruned |-> acc.pruned]
    ELSE LET sub == IF MoveBusts(s0, i, NN)
                    THEN [val |-> BustValue(is_player1), nodes |-> 0,
                          cuts |-> 0, pruned |-> 0]
                    ELSE minimax_ab_tree(s0 + i, kk, NN, ~is_player1, alpha, beta)
             best1 == IF is_player1 THEN Max(best, sub.val) ELSE Min(best, sub.val)
             alpha1 == IF is_player1 THEN Max(alpha, best1) ELSE alpha
             beta1 == IF is_player1 THEN beta ELSE Min(beta, best1)
             acc1 == [nodes |-> acc.nodes + sub.nodes,
                      cuts |-> acc.cuts + sub.cuts,
                      pruned |-> acc.pruned + sub.pruned]
         IN IF Cutoff(alpha1, beta1)
            THEN [val |-> best1, nodes |-> acc1.nodes,
                  cuts |-> acc1.cuts + 1,
                  pruned |-> acc1.pruned +
                             (IF i < kk /\ s0 + i + 1 <= NN THEN 1 ELSE 0)]
            ELSE AlphaBetaLoop(s0, kk, NN, is_player1, alpha1, beta1,
                               i + 1, best1, acc1)

minimax_ab_tree(s0, kk, NN, is_player1, alpha, beta) ==
    IF ForcedBust(s0, NN)
    THEN [val |-> BustValue(is_player1), nodes |-> 1, cuts |-> 0, pruned |-> 0]
    ELSE AlphaBetaLoop(s0, kk, NN, is_player1, alpha, beta, 1,
                       IF is_player1 THEN NegInf ELSE PosInf,
                       [nodes |-> 1, cuts |-> 0, pruned |-> 0])

\* The comparison record before demo_comparison_methods has run
NoCmp == [status |-> "none", v_dp |-> 0, v_mm |-> 0, nodes_mm |-> 0,
          v_ab |-> 0, nodes_ab |-> 0, cuts |-> 0, pruned |-> 0]

\* ------------------------------------------------------------------------
\* demo_game_play (lines 382-442)
\* ------------------------------------------------------------------------
\* lines 419-422: the value to the mover of move j in the worst-move scan
WorstCandidate(Vt, s0, j, NN) ==
    IF s0 + j <= NN THEN -Vt[s0 + j] ELSE -1

\* line 423: strict, so the first minimal move is kept
WorsensWorst(val, worst_val) == val < worst_val

\* lines 416-425: the scan over j = 1..k; worst = [val, i]
RECURSIVE WorstScan(_, _, _, _, _, _)
WorstScan(Vt, s0, j, kk, NN, worst) ==
    IF j > kk THEN worst
    ELSE LET val == WorstCandidate(Vt, s0, j, NN)
         IN WorstScan(Vt, s0, j + 1, kk, NN,
                      IF WorsensWorst(val, worst.val)
                      THEN [val |-> val, i |-> j]
                      ELSE worst)

\* Mutant of WorstMove: the scan starts at j = 0 (range(k + 1))
WorstMoveFromZero(Vt, s0, kk, NN) ==
    WorstScan(Vt, s0, 0, kk, NN, [val |-> PosInf, i |-> 1]).i

WorstMove(Vt, s0, kk, NN) ==
    WorstScan(Vt, s0, 1, kk, NN, [val |-> PosInf, i |-> 1]).i

\* Mutant of MoverOptimal: the two policy flags swapped
MoverOptimalSwapped(p1, p1_opt, p2_opt) == (p1 /\ p2_opt) \/ (~p1 /\ p1_opt)

\* line 412: does the mover follow the optimal policy
MoverOptimal(p1, p1_opt, p2_opt) == (p1 /\ p1_opt) \/ (~p1 /\ p2_opt)

\* Mutant of Opponent: the mover is returned as the winner
OpponentIsMover(p1) == IF p1 THEN "I" ELSE "II"

\* lines 410 and 432: the mover has lost
Opponent(p1) == IF p1 THEN "II" ELSE "I"

\* line 400
PlayerName(p1) == IF p1 THEN "I" ELSE "II"

\* One printed "Move" line (lines 407-408, 429-430, 436-438)
MoveLine(num, p1, s0, i) ==
    [move_num |-> num, player |-> PlayerName(p1), s |-> s0, i |-> i,
     s_new |-> s0 + i]

Configs == BOOLEAN \X BOOLEAN

\* What a call of demo_game_play gave: its return value and printed moves
NoGame == [status |-> "none", winner |-> "-", trajectory |-> << >>]

\* A direct search call that has not been made
NoProbe == [status |-> "none", s |-> 0, is_player1 |-> TRUE,
            alpha |-> NegInf, beta |-> PosInf, val |-> 0, nodes |-> 0]

\* The bounds a search window is drawn from: -inf, -1, +1, +inf
WindowBounds == {NegInf, -1, 1, PosInf}

VARIABLES
    k, N,          \* the parameters of the game
    pc,            \* "idle", or the position inside a running function
    sol,           \* result of the last direct solve_addition_game(k, N)
    verified,      \* result of the last verify_analytical_solution(k, N)
    cmp,           \* locals and results of demo_comparison_methods(k, N)
    p1_optimal, p2_optimal, V, policy, s, is_p1, move_num,
                   \* arguments and locals of the running demo_game_play
    log,           \* the "Move" lines the running demo_game_play printed
    games,         \* per (p1_optimal, p2_optimal): outcome of the last game
    probe          \* arguments and result of the last direct search call

sim == <<p1_optimal, p2_optimal, V, policy, s, is_p1, move_num, log>>
vars == <<k, N, pc, sol, verified, cmp, sim, games, probe>>

\* No demo_game_play frame is live
SimIdle ==
    /\ p1_optimal = TRUE
    /\ p2_optimal = TRUE
    /\ V = NewList(0, 0)
    /\ policy = NewList(0, Some(0))
    /\ s = 0
    /\ is_p1 = TRUE
    /\ move_num = 1
    /\ log = << >>

Init ==
    /\ k \in Ks
    /\ N \in Ns
    /\ pc = "idle"
    /\ sol = NoSol
    /\ verified = "none"
    /\ cmp = NoCmp
    /\ SimIdle
    /\ games = [c \in Configs |-> NoGame]
    /\ probe = NoProbe

\* A direct call of solve_addition_game(k, N)
Solve ==
    /\ pc = "idle"
    /\ sol' = solve_addition_game(k, N)
    /\ UNCHANGED <<k, N, pc, verified, cmp, sim, games, probe>>

\* A call of verify_analytical_solution(k, N)
Verify ==
    /\ pc = "idle"
    /\ verified' = verify_analytical_solution(k, N)
    /\ UNCHANGED <<k, N, pc, sol, cmp, sim, games, probe>>

\* demo_comparison_methods, lines 452-453: the DP value of the start state
CompareDP ==
    /\ pc = "idle"
    /\ LET r == solve_addition_game(k, N)
       IN IF r.status # "ok"
          THEN /\ cmp' = [NoCmp EXCEPT !.status = r.status]
               /\ pc' = "idle"
          ELSE /\ cmp' = [NoCmp EXCEPT !.status = "dp", !.v_dp = r.V[0]]
               /\ pc' = "cmp_mm"
    /\ UNCHANGED <<k, N, sol, verified, sim, games, probe>>

\* lines 456-457: the plain minimax search from state 0
CompareMinimax ==
    /\ pc = "cmp_mm"
    /\ LET r == minimax_tree(0, k, N, TRUE)
       IN cmp' = [cmp EXCEPT !.status = "mm", !.v_mm = r.val, !.nodes_mm = r.nodes]
    /\ pc' = "cmp_ab"
    /\ UNCHANGED <<k, N, sol, verified, sim, games, probe>>

\* lines 460-461: the alpha-beta search from state 0
CompareAlphaBeta ==
    /\ pc = "cmp_ab"
    /\ LET r == minimax_ab_tree(0, k, N, TRUE, NegInf, PosInf)
       IN cmp' = [cmp EXCEPT !.status = "done", !.v_ab = r.val,
                             !.nodes_ab = r.nodes, !.cuts = r.cuts,
                             !.pruned = r.pruned]
    /\ pc' = "idle"
    /\ UNCHANGED <<k, N, sol, verified, sim, games, probe>>

\* demo_game_play(k, N, p1o, p2o), lines 384-397: solve, then s = 0
GameStart(p1o, p2o) ==
    /\ pc = "idle"
    /\ LET r == solve_addition_game(k, N)
       IN IF r.status # "ok"
          THEN /\ games' = [games EXCEPT ![<<p1o, p2o>>] =
                               [NoGame EXCEPT !.status = r.status]]
               /\ UNCHANGED <<pc, sim>>
          ELSE /\ p1_optimal' = p1o
               /\ p2_optimal' = p2o
               /\ V' = r.V
               /\ policy' = r.policy
               /\ s' = 0
               /\ is_p1' = TRUE
               /\ move_num' = 1
               /\ log' = << >>
               /\ pc' = "play"
               /\ games' = [games EXCEPT ![<<p1o, p2o>>] = NoGame]
    /\ UNCHANGED <<k, N, sol, verified, cmp, probe>>

\* The function returns (or raises): its frame is dropped
GameReturn(status, winner, trajectory) ==
    /\ games' = [games EXCEPT ![<<p1_optimal, p2_optimal>>] =
                    [status |-> status, winner |-> winner,
                     trajectory |-> trajectory]]
    /\ p1_optimal' = TRUE
    /\ p2_optimal' = TRUE
    /\ V' = NewList(0, 0)
    /\ policy' = NewList(0, Some(0))
    /\ s' = 0
    /\ is_p1' = TRUE
    /\ move_num' = 1
    /\ log' = << >>
    /\ pc' = "idle"

\* One iteration of the loop of lines 399-442
GameMove ==
    /\ pc = "play"
    /\ IF s = N
       THEN \* lines 404-410: forced bust
            GameReturn("returned", Opponent(is_p1),
                       Append(log, MoveLine(move_num, is_p1, s, 1)))
       ELSE IF MoverOptimal(is_p1, p1_optimal, p2_optimal) /\ policy[s] = None
       THEN \* lines 413 and 427: s + None
            GameReturn("TypeError", "-", log)
       ELSE LET i == IF MoverOptimal(is_p1, p1_optimal, p2_optimal)
                     THEN TheMove(policy[s])
                     ELSE WorstMove(V, s, k, N)
                s_new == s + i
            IN IF s_new > N
               THEN \* lines 428-432: the mover busts
                    GameReturn("returned", Opponent(is_p1),
                               Append(log, MoveLine(move_num, is_p1, s, i)))
               ELSE \* lines 433-442
                    /\ s' = s_new
                    /\ is_p1' = ~is_p1
                    /\ move_num' = move_num + 1
                    /\ log' = Append(log, MoveLine(move_num, is_p1, s, i))
                    /\ UNCHANGED <<pc, p1_optimal, p2_optimal, V, policy, games>>
    /\ UNCHANGED <<k, N, sol, verified, cmp, probe>>

Next ==
    \/ Solve
    \/ Verify
    \/ CompareDP
    \/ CompareMinimax
    \/ CompareAlphaBeta
    \/ \E p1o \in BOOLEAN, p2o \in BOOLEAN : GameStart(p1o, p2o)
    \/ GameMove

Spec == Init /\ [][Next]_vars

\* ------------------------------------------------------------------------
\* The two searches called directly at any state, role and window
\* ------------------------------------------------------------------------
\* minimax_tree(s0, k, N, role, stats) with fresh stats; the searches keep
\* no state between calls, so a behaviour makes one direct call
SearchMinimax(s0, role) ==
    /\ pc = "idle"
    /\ probe.status = "none"
    /\ LET r == minimax_tree(s0, k, N, role)
       IN probe' = [status |-> "mm", s |-> s0, is_player1 |-> role,
                    alpha |-> NegInf, beta |-> PosInf,
                    val |-> r.val, nodes |-> r.nodes]
    /\ UNCHANGED <<k, N, pc, sol, verified, cmp, sim, games>>

\* minimax_ab_tree(s0, k, N, role, a, b, stats) with fresh stats
SearchAlphaBeta(s0, role, a, b) ==
    /\ pc = "idle"
    /\ probe.status = "none"
    /\ LET r == minimax_ab_tree(s0, k, N, role, a, b)
       IN probe' = [status |-> "ab", s |-> s0, is_player1 |-> role,
                    alpha |-> a, beta |-> b,
                    val |-> r.val, nodes |-> r.nodes]
    /\ UNCHANGED <<k, N, pc, sol, verified, cmp, sim, games>>

SearchNext ==
    \/ \E s0 \in 0..N, role \in BOOLEAN : SearchMinimax(s0, role)
    \/ \E s0 \in 0..N, role \in BOOLEAN, a \in WindowBounds, b \in WindowBounds :
          a < b /\ SearchAlphaBeta(s0, role, a, b)

SearchSpec == Init /\ [][SearchNext]_vars

\* ------------------------------------------------------------------------
\* Properties
\* ------------------------------------------------------------------------
ValidParams == k >= 1 /\ N >= 0

\* The closed form of the spec: -1 iff (N - s0) is a multiple of k + 1
ClosedForm(s0) == IF (N - s0) % (k + 1) = 0 THEN -1 ELSE 1

\* C1: for k >= 1, N >= 0 the value table returned by solve_addition_game
\* has length N+1, V[s] is -1 when (N - s) mod (k+1) = 0 and +1 otherwise
\* for every s in 0..N (so V[N] = -1), and verify_analytical_solution
\* returns True.
C1_ValueTableIsClosedForm ==
    ValidParams =>
        /\ sol.status # "none" =>
              /\ sol.status = "ok"
              /\ DOMAIN sol.V = 0..N
              /\ Cardinality(DOMAIN sol.V) = N + 1
              /\ \A s0 \in 0..N : sol.V[s0] = ClosedForm(s0)
              /\ sol.V[N] = -1
        /\ verified # "none" => verified = "True"

C1_Witness ==
    /\ k = 3 /\ N = 10
    /\ sol.status = "ok"
    /\ sol.V[0] = 1 /\ sol.V[2] = -1 /\ sol.V[10] = -1
    /\ verified = "True"

\* C2: for k >= 1, N >= 0 the plain minimax value, the alpha-beta value
\* and the DP value V[0] of the start state are equal.
C2_ThreeMethodsAgree ==
    (ValidParams /\ cmp.status = "done") =>
        /\ cmp.v_mm = cmp.v_ab
        /\ cmp.v_ab = cmp.v_dp
        /\ cmp.v_dp \in {-1, 1}

C2_Witness ==
    /\ k = 3 /\ N = 8
    /\ cmp.status = "done"
    /\ cmp.v_mm = -1 /\ cmp.v_ab = -1 /\ cmp.v_dp = -1
    /\ cmp.nodes_ab < cmp.nodes_mm

\* C3: solve called with k < 1 or N < 0 signals InvalidParameter before
\* computing anything: it returns no table at all and raises no index
\* error.
C3_InvalidParameterSignalled ==
    ((k < 1 \/ N < 0) /\ sol.status # "none") =>
        sol.status = "InvalidParameter"

\* C4: for k >= 1, N >= 0 policy[N] is none and, for s < N, policy[s] is
\* the smallest i in 1..k whose candidate value (-1 if s+i > N, else
\* -V[s+i]) equals V[s]; none occurs only at s = N, and a losing state
\* s < N has policy 1.
C4_PolicyIsFirstBestMove ==
    (ValidParams /\ sol.status = "ok") =>
        /\ DOMAIN sol.policy = 0..N
        /\ sol.policy[N] = {}
        /\ \A s0 \in 0..(N - 1) :
              LET cand(i) == IF s0 + i > N THEN -1 ELSE -sol.V[s0 + i]
                  attain == {i \in 1..k : cand(i) = sol.V[s0]}
              IN /\ attain # {}
                 /\ sol.policy[s0] = {CHOOSE i \in attain :
                                         \A j \in attain : i <= j}
                 /\ sol.V[s0] = -1 => sol.policy[s0] = {1}

C4_Witness ==
    /\ k = 3 /\ N = 10
    /\ sol.status = "ok"
    /\ sol.policy[10] = {}
    /\ sol.policy[0] = {2}
    /\ sol.V[2] = -1 /\ sol.policy[2] = {1}
    /\ sol.policy[9] = {1} /\ sol.V[9] = 1

\* C5: for k >= 1, N >= 0 the alpha-beta search from state 0 visits no
\* more nodes than the plain minimax search from state 0.
C5_AlphaBetaNoMoreNodes ==
    (ValidParams /\ cmp.status = "done") =>
        cmp.nodes_ab <= cmp.nodes_mm

C5_Witness ==
    /\ k = 3 /\ N = 10
    /\ cmp.status = "done"
    /\ cmp.nodes_mm = 600
    /\ cmp.nodes_ab = 329
\* C6: for k >= 2 and N >= k+2 the alpha-beta search from state 0 visits
\* strictly fewer nodes than the plain minimax search from state 0.
C6_StrictlyFewerNodes ==
    (k >= 2 /\ N >= k + 2 /\ cmp.status = "done") =>
        cmp.nodes_ab < cmp.nodes_mm

C6_Witness ==
    /\ k = 2 /\ N = 4
    /\ cmp.status = "done"
    /\ cmp.nodes_mm = 12
    /\ cmp.nodes_ab = 11

\* C7 as claimed: whenever at least one cutoff fires (a loop of
\* minimax_ab_tree is left through the break) in the search from state 0,
\* alpha-beta visits strictly fewer nodes than plain minimax.
C7_AnyCutoffSavesNodes ==
    (ValidParams /\ cmp.status = "done" /\ cmp.cuts > 0) =>
        cmp.nodes_ab < cmp.nodes_mm

\* C7 as amended: whenever at least one cutoff fires that leaves a move
\* unexplored which would not bust (i < k and s+i+1 <= N at the break),
\* alpha-beta visits strictly fewer nodes than plain minimax; when every
\* cutoff leaves only busting moves, or none, the two counts are equal.
C7_PruningCutoffSavesNodes ==
    (ValidParams /\ cmp.status = "done" /\ cmp.cuts > 0) =>
        /\ cmp.pruned > 0 => cmp.nodes_ab < cmp.nodes_mm
        /\ cmp.pruned = 0 => cmp.nodes_ab = cmp.nodes_mm

C7_Witness ==
    /\ k = 2 /\ N = 4
    /\ cmp.status = "done"
    /\ cmp.cuts = 2
    /\ cmp.pruned > 0
    /\ cmp.nodes_ab < cmp.nodes_mm

\* The moves of a game: before each move the sum is in 0..N, the move is
\* in 1..k, the lines are numbered 1, 2, ... with the players alternating
\* from Player I, and the sum before a move is the sum after the previous
\* one, hence strictly larger than the sum before it.
MovesWellFormed(tr) ==
    /\ Len(tr) <= N + 1
    /\ \A n \in 1..Len(tr) :
          /\ tr[n].move_num = n
          /\ tr[n].player = (IF n % 2 = 1 THEN "I" ELSE "II")
          /\ 0 <= tr[n].s /\ tr[n].s <= N
          /\ tr[n].i \in 1..k
          /\ tr[n].s_new = tr[n].s + tr[n].i
    /\ \A n \in 1..(Len(tr) - 1) :
          /\ tr[n + 1].s = tr[n].s_new
          /\ tr[n].s < tr[n + 1].s

\* C8: for k >= 1, N >= 0 and every combination of optimal/worst policies
\* the simulated game returns after at most N+1 moves; in every state
\* before the end the running sum is in 0..N and strictly increases from
\* move to move, and every move chosen is in 1..k.
C8_GameBoundedAndMonotone ==
    ValidParams =>
        /\ pc = "play" =>
              /\ MovesWellFormed(log)
              /\ move_num = Len(log) + 1
              /\ move_num <= N + 1
              /\ 0 <= s /\ s <= N
              /\ log # << >> => s = log[Len(log)].s_new
              /\ is_p1 = (move_num % 2 = 1)
        /\ \A c \in Configs :
              games[c].status # "none" =>
                  /\ games[c].status = "returned"
                  /\ games[c].trajectory # << >>
                  /\ MovesWellFormed(games[c].trajectory)

C8_Witness ==
    /\ k = 1 /\ N = 10
    /\ games[<<FALSE, FALSE>>].status = "returned"
    /\ Len(games[<<FALSE, FALSE>>].trajectory) = N + 1
    /\ games[<<FALSE, TRUE>>].status = "returned"
    /\ pc = "play" /\ p1_optimal /\ ~p2_optimal /\ move_num = 4 /\ s = 3

\* C9: for valid (k, N) a game with both players optimal ends with the
\* last mover's sum exceeding N, and the winner is Player I exactly when
\* V[0] = +1, i.e. N mod (k+1) # 0, and Player II exactly when V[0] = -1;
\* for k = 3, N = 10 it takes at most 10 moves and Player I wins.
C9_OptimalGameWinner ==
    LET g == games[<<TRUE, TRUE>>]
        last == g.trajectory[Len(g.trajectory)]
    IN (ValidParams /\ g.status # "none") =>
          /\ g.status = "returned"
          /\ last.s_new > N
          /\ g.winner # last.player
          /\ g.winner \in {"I", "II"}
          /\ g.winner = "I" <=> N % (k + 1) # 0
          /\ sol.status = "ok" => (g.winner = "I" <=> sol.V[0] = 1)
          /\ sol.status = "ok" => (g.winner = "II" <=> sol.V[0] = -1)
          /\ (k = 3 /\ N = 10) =>
                (Len(g.trajectory) <= 10 /\ g.winner = "I")

C9_Witness ==
    /\ k = 3 /\ N = 10
    /\ sol.status = "ok" /\ sol.V[0] = 1
    /\ games[<<TRUE, TRUE>>].status = "returned"
    /\ games[<<TRUE, TRUE>>].winner = "I"
    /\ Len(games[<<TRUE, TRUE>>].trajectory) = 6

\* C10: for valid (k, N) with V[0] = +1 (N mod (k+1) # 0), in particular
\* k = 3, N = 10, the game of Player I optimal against Player II playing
\* the worst move is won by Player I in no more moves than the game with
\* both players optimal.
C10_WorstOpponentNoLonger ==
    LET a == games[<<TRUE, TRUE>>]
        b == games[<<TRUE, FALSE>>]
    IN (ValidParams /\ N % (k + 1) # 0 /\ b.status # "none") =>
          /\ b.status = "returned"
          /\ b.winner = "I"
          /\ a.status = "returned" =>
                Len(b.trajectory) <= Len(a.trajectory)

C10_Witness ==
    /\ k = 3 /\ N = 10
    /\ games[<<TRUE, TRUE>>].status = "returned"
    /\ games[<<TRUE, FALSE>>].status = "returned"
    /\ games[<<TRUE, FALSE>>].winner = "I"
    /\ Len(games[<<TRUE, FALSE>>].trajectory) = 6
    /\ Len(games[<<TRUE, TRUE>>].trajectory) = 6

\* Does the player named in a printed move follow the optimal policy
PlaysOptimal(player, p1_opt, p2_opt) ==
    IF player = "I" THEN p1_opt ELSE p2_opt

\* Every optimal move of tr made from a winning state of the table Vt is
\* (N - s) mod (k+1), does not bust and leaves a sum congruent to N, and
\* at every later move of the other player the sum is congruent to N.
OptimalMovesHerd(tr, p1_opt, p2_opt, Vt) ==
    \A n \in 1..Len(tr) :
        (PlaysOptimal(tr[n].player, p1_opt, p2_opt) /\ tr[n].s < N
            /\ Vt[tr[n].s] = 1) =>
            /\ tr[n].i = (N - tr[n].s) % (k + 1)
            /\ tr[n].s_new <= N
            /\ (N - tr[n].s_new) % (k + 1) = 0
            /\ \A m \in (n + 1)..Len(tr) :
                  tr[m].player # tr[n].player =>
                      (N - tr[m].s) % (k + 1) = 0

\* Some optimal move of tr by the given player starts in a winning state
HasWinningOptimalMove(tr, player, p1_opt, p2_opt, Vt) ==
    \E n \in 1..Len(tr) :
        /\ tr[n].player = player
        /\ PlaysOptimal(player, p1_opt, p2_opt)
        /\ tr[n].s < N
        /\ Vt[tr[n].s] = 1

\* C11: in any simulated game, whenever a player using the optimal policy
\* moves from a winning state s (V[s] = +1) the move is (N - s) mod (k+1),
\* it does not bust and it leaves the sum congruent to N modulo k+1; from
\* then on, whatever the opponent's policy, the sum is congruent to N
\* modulo k+1 in every state where the opponent is to move, until the
\* opponent busts and so loses the game.
C11_OptimalMoverHerdsOpponent ==
    ValidParams =>
        /\ pc = "play" =>
              /\ OptimalMovesHerd(log, p1_optimal, p2_optimal, V)
              /\ HasWinningOptimalMove(log, PlayerName(~is_p1),
                                       p1_optimal, p2_optimal, V)
                    => (N - s) % (k + 1) = 0
        /\ \A c \in Configs :
              games[c].status = "returned" =>
                  LET tr == games[c].trajectory
                      Vt == solve_addition_game(k, N).V
                  IN /\ OptimalMovesHerd(tr, c[1], c[2], Vt)
                     /\ \A pl \in {"I", "II"} :
                           HasWinningOptimalMove(tr, pl, c[1], c[2], Vt) =>
                               /\ games[c].winner = pl
                               /\ tr[Len(tr)].player # pl
                               /\ tr[Len(tr)].s_new > N

C11_Witness ==
    /\ k = 3 /\ N = 10
    /\ games[<<FALSE, TRUE>>].status = "returned"
    /\ games[<<FALSE, TRUE>>].winner = "II"
    /\ Len(games[<<FALSE, TRUE>>].trajectory) = 7
    /\ games[<<FALSE, TRUE>>].trajectory[2].s = 1
    /\ games[<<FALSE, TRUE>>].trajectory[2].i = 1
    /\ games[<<FALSE, TRUE>>].trajectory[4].i = 3
    /\ pc = "play" /\ p1_optimal /\ ~p2_optimal
    /\ Len(log) = 3 /\ ~is_p1 /\ s = 6
    /\ log[1].i = 2 /\ log[3].i = 3

\* C12: for k >= 1, N >= 0 and every state s in 0..N the plain minimax
\* value on Player I's axis is the Bellman value of the mover with the
\* sign of the mover: minimax_tree(s, k, N, True) = V[s] and
\* minimax_tree(s, k, N, False) = -V[s], V = solve_addition_game(k, N)['V'].
C12_MinimaxIsSignedBellman ==
    (ValidParams /\ probe.status = "mm") =>
        LET Vt == solve_addition_game(k, N).V
        IN /\ probe.s \in DOMAIN Vt
           /\ probe.is_player1 => probe.val = Vt[probe.s]
           /\ ~probe.is_player1 => probe.val = -Vt[probe.s]

C12_Witness ==
    /\ k = 3 /\ N = 10
    /\ probe.status = "mm"
    /\ probe.s = 6 /\ ~probe.is_player1
    /\ probe.val = 1
    /\ solve_addition_game(k, N).V[6] = -1

\* C13: for k >= 1, N >= 0, s in 0..N, either role and a window
\* alpha < beta with bounds in {-inf, -1, +1, +inf}, the result r of
\* minimax_ab_tree(s, k, N, role, alpha, beta) is -1 or +1 and bounds the
\* plain minimax value v of the node: r = v if alpha < v < beta,
\* r <= alpha if v <= alpha, and r >= beta if v >= beta.
C13_AlphaBetaBoundsMinimax ==
    (ValidParams /\ probe.status = "ab") =>
        LET v == minimax_tree(probe.s, k, N, probe.is_player1).val
            r == probe.val
        IN /\ r \in {-1, 1}
           /\ (probe.alpha < v /\ v < probe.beta) => r = v
           /\ v <= probe.alpha => r <= probe.alpha
           /\ v >= probe.beta => r >= probe.beta

C13_Witness ==
    /\ k = 3 /\ N = 10
    /\ probe.status = "ab"
    /\ probe.s = 3 /\ probe.is_player1
    /\ probe.alpha = -1 /\ probe.beta = PosInf
    /\ probe.val = 1
    /\ probe.nodes < minimax_tree(3, k, N, TRUE).nodes
====
